---- MODULE Spec2Model ----
(***************************************************************************)
(* Merkle-Mountain-Range position arithmetic (src/src/utils.rs) and the    *)
(* vector backed store (src/src/store.rs).                                 *)
(*                                                                         *)
(* The navigation functions are pure functions over u64.  They are         *)
(* modelled over a machine word of W bits (W stands for 64), every         *)
(* operator of the code that can overflow (+, -, *, <<, >>) being a        *)
(* checked operation that returns the wrapped value together with an       *)
(* overflow flag.  A build with overflow checks panics at the first        *)
(* overflow, a build without them goes on with the wrapped value.          *)
(*                                                                         *)
(* The store is modelled with the two vectors of VecStore.  Its reads      *)
(* take a u64 and cast it to usize, whose width depends on the target:     *)
(* the cast keeps the low usize_bits bits.                                 *)
(***************************************************************************)
EXTENDS Integers, Sequences, FiniteSets

\* Width of the scaled-down machine word that stands for u64.
W == 5

\* Width of the scaled-down u64 of an index passed to the store.
IdxBits == 3

\* Most hashes the store holds, most append calls, longest slice of hashes
\* passed to one append.
MaxLen == 3

MaxAppends == 2

MaxSlice == 2

VARIABLES
    overflow_checks,  \* the build panics on arithmetic overflow
    in_pos,           \* first argument of the navigation call
    in_end_pos,       \* second argument of the navigation call
    nav_ret,          \* what the navigation call returned
    usize_bits,       \* width of usize on the target
    hashes,           \* VecStore::hashes
    data,             \* VecStore::data
    store_ret,        \* what the last store call returned
    appended_hashes,  \* every hash passed to append so far, in call order
    appended_elems    \* every element passed to append so far, in call order

nav_vars == <<overflow_checks, in_pos, in_end_pos, nav_ret>>

store_vars == <<usize_bits, hashes, data, store_ret, appended_hashes, appended_elems>>

vars == <<nav_vars, store_vars>>

RECURSIVE Pow2(_)
Pow2(n) == IF n = 0 THEN 1 ELSE 2 * Pow2(n - 1)

\* Number of values of the machine word.
Modulus == Pow2(W)

ALL_ONES == Modulus - 1

U64 == 0 .. ALL_ONES

RECURSIVE BitLen(_)
BitLen(x) == IF x = 0 THEN 0 ELSE 1 + BitLen(x \div 2)

leading_zeros(x) == W - BitLen(x)

RECURSIVE BitAnd(_, _)
BitAnd(a, b) ==
    IF a = 0 \/ b = 0 THEN 0
    ELSE (a % 2) * (b % 2) + 2 * BitAnd(a \div 2, b \div 2)

RECURSIVE BitOr(_, _)
BitOr(a, b) ==
    IF a = 0 THEN b
    ELSE IF b = 0 THEN a
    ELSE (IF a % 2 = 1 \/ b % 2 = 1 THEN 1 ELSE 0) + 2 * BitOr(a \div 2, b \div 2)

CheckedAdd(a, b) == [val |-> (a + b) % Modulus, ovf |-> a + b > ALL_ONES]

CheckedSub(a, b) == [val |-> (a - b + Modulus) % Modulus, ovf |-> a < b]

CheckedMul(a, b) == [val |-> (a * b) % Modulus, ovf |-> a * b > ALL_ONES]

\* Bits shifted out are lost silently; only a shift amount of the word
\* width or more is an overflow (the amount is then masked).
CheckedShl(a, n) == [val |-> (a * Pow2(n % W)) % Modulus, ovf |-> n >= W]

CheckedShr(a, n) == [val |-> a \div Pow2(n % W), ovf |-> n >= W]

SaturatingSub(a, b) == IF a < b THEN 0 ELSE a - b

----
\* peaks

\* Mutant of peaks_loop: a peak is pushed without the offset of the peaks
\* to its left.
RECURSIVE peaks_loop_no_offset(_, _, _, _, _)
peaks_loop_no_offset(peak_idx, nodes_left, prev_peak_idx, acc, ovf) ==
    IF peak_idx = 0
    THEN [peaks |-> acc, nodes_left |-> nodes_left, ovf |-> ovf]
    ELSE IF nodes_left >= peak_idx
         THEN LET pushed == CheckedAdd(prev_peak_idx, peak_idx)
                  left == CheckedSub(nodes_left, peak_idx)
              IN peaks_loop_no_offset(CheckedShr(peak_idx, 1).val, left.val,
                                      pushed.val, Append(acc, peak_idx),
                                      ovf \/ pushed.ovf \/ left.ovf)
         ELSE peaks_loop_no_offset(CheckedShr(peak_idx, 1).val, nodes_left,
                                   prev_peak_idx, acc, ovf)

RECURSIVE peaks_loop(_, _, _, _, _)
peaks_loop(peak_idx, nodes_left, prev_peak_idx, acc, ovf) ==
    IF peak_idx = 0
    THEN [peaks |-> acc, nodes_left |-> nodes_left, ovf |-> ovf]
    ELSE IF nodes_left >= peak_idx
         THEN LET pushed == CheckedAdd(prev_peak_idx, peak_idx)
                  left == CheckedSub(nodes_left, peak_idx)
              IN peaks_loop(CheckedShr(peak_idx, 1).val, left.val, pushed.val,
                            Append(acc, pushed.val),
                            ovf \/ pushed.ovf \/ left.ovf)
         ELSE peaks_loop(CheckedShr(peak_idx, 1).val, nodes_left,
                         prev_peak_idx, acc, ovf)

\* Mutant of peaks: the check for nodes left over is forgotten.
peaks_keeps_unstable(size) ==
    IF size = 0
    THEN [val |-> <<>>, ovf |-> FALSE]
    ELSE LET start == CheckedShr(ALL_ONES, leading_zeros(size))
             r == peaks_loop(start.val, size, 0, <<>>, start.ovf)
         IN [val |-> r.peaks, ovf |-> r.ovf]

peaks(size) ==
    IF size = 0
    THEN [val |-> <<>>, ovf |-> FALSE]
    ELSE LET start == CheckedShr(ALL_ONES, leading_zeros(size))
             r == peaks_loop(start.val, size, 0, <<>>, start.ovf)
         IN [val |-> IF r.nodes_left > 0 THEN <<>> ELSE r.peaks,
             ovf |-> r.ovf]

----
\* node_height, is_leaf

RECURSIVE node_height_loop(_, _)
node_height_loop(peak_idx, idx) ==
    IF peak_idx = 0
    THEN idx
    ELSE node_height_loop(CheckedShr(peak_idx, 1).val,
                          IF idx >= peak_idx THEN idx - peak_idx ELSE idx)

node_height(pos) ==
    LET idx == SaturatingSub(pos, 1)
    IN IF idx = 0
       THEN [val |-> 0, ovf |-> FALSE]
       ELSE LET start == CheckedShr(ALL_ONES, leading_zeros(idx))
            IN [val |-> node_height_loop(start.val, idx), ovf |-> start.ovf]

is_leaf(pos) ==
    LET h == node_height(pos) IN [val |-> h.val = 0, ovf |-> h.ovf]

----
\* peak_height_map

\* Mutant of peak_height_map_loop: the map is shifted only for a rung that
\* is subtracted.
RECURSIVE peak_height_map_loop_late_shift(_, _, _)
peak_height_map_loop_late_shift(peak_idx, idx, peak_map) ==
    IF peak_idx = 0
    THEN <<peak_map, idx>>
    ELSE IF idx >= peak_idx
         THEN peak_height_map_loop_late_shift(CheckedShr(peak_idx, 1).val,
                  idx - peak_idx, BitOr(CheckedShl(peak_map, 1).val, 1))
         ELSE peak_height_map_loop_late_shift(CheckedShr(peak_idx, 1).val,
                  idx, peak_map)

RECURSIVE peak_height_map_loop(_, _, _)
peak_height_map_loop(peak_idx, idx, peak_map) ==
    IF peak_idx = 0
    THEN <<peak_map, idx>>
    ELSE LET shifted == CheckedShl(peak_map, 1).val
         IN IF idx >= peak_idx
            THEN peak_height_map_loop(CheckedShr(peak_idx, 1).val,
                                      idx - peak_idx, BitOr(shifted, 1))
            ELSE peak_height_map_loop(CheckedShr(peak_idx, 1).val,
                                      idx, shifted)

peak_height_map(idx) ==
    IF idx = 0
    THEN [val |-> <<0, 0>>, ovf |-> FALSE]
    ELSE LET start == CheckedShr(ALL_ONES, leading_zeros(idx))
         IN [val |-> peak_height_map_loop(start.val, idx, 0),
             ovf |-> start.ovf]

----
\* is_left, family

is_left(pos) ==
    LET idx == CheckedSub(pos, 1)
        phm == peak_height_map(idx.val)
        peak == CheckedShl(1, phm.val[2])
    IN [val |-> BitAnd(phm.val[1], peak.val) = 0,
        ovf |-> idx.ovf \/ phm.ovf \/ peak.ovf]

\* Mutant of family: the sibling of a right child is taken from pos, not
\* from the parent.
family_sibling_off_by_one(pos) ==
    LET idx == CheckedSub(pos, 1)
        phm == peak_height_map(idx.val)
        peak == CheckedShl(1, phm.val[2])
        twice == CheckedMul(2, peak.val)
        before == idx.ovf \/ phm.ovf \/ peak.ovf
    IN IF BitAnd(phm.val[1], peak.val) # 0
       THEN LET parent == CheckedAdd(pos, 1)
                sibling == CheckedSub(pos, twice.val)
            IN [val |-> <<parent.val, sibling.val>>,
                ovf |-> before \/ parent.ovf \/ twice.ovf \/ sibling.ovf]
       ELSE LET parent == CheckedAdd(pos, twice.val)
                sibling == CheckedSub(parent.val, 1)
            IN [val |-> <<parent.val, sibling.val>>,
                ovf |-> before \/ twice.ovf \/ parent.ovf \/ sibling.ovf]

family(pos) ==
    LET idx == CheckedSub(pos, 1)
        phm == peak_height_map(idx.val)
        peak == CheckedShl(1, phm.val[2])
        twice == CheckedMul(2, peak.val)
        before == idx.ovf \/ phm.ovf \/ peak.ovf
    IN IF BitAnd(phm.val[1], peak.val) # 0
       THEN LET parent == CheckedAdd(pos, 1)
                sibling == CheckedSub(parent.val, twice.val)
            IN [val |-> <<parent.val, sibling.val>>,
                ovf |-> before \/ parent.ovf \/ twice.ovf \/ sibling.ovf]
       ELSE LET parent == CheckedAdd(pos, twice.val)
                sibling == CheckedSub(parent.val, 1)
            IN [val |-> <<parent.val, sibling.val>>,
                ovf |-> before \/ twice.ovf \/ parent.ovf \/ sibling.ovf]

----
\* family_path

\* One run of the while loop.  The loop has no exit once an iteration
\* changes neither node_pos nor parent_height while node_pos < end_pos
\* (parent_height shifted out to 0): it then pushes the same pair for ever.
RECURSIVE family_path_loop(_, _, _, _, _, _)
family_path_loop(node_pos, end_pos, peak_map, parent_height, path, ovf) ==
    IF ~(node_pos < end_pos)
    THEN [val |-> path, ovf |-> ovf, diverges |-> FALSE]
    ELSE LET twice == CheckedMul(2, parent_height)
             right == BitAnd(peak_map, parent_height) # 0
             next_pos == IF right THEN CheckedAdd(node_pos, 1)
                         ELSE CheckedAdd(node_pos, twice.val)
             sibling == IF right THEN CheckedSub(next_pos.val, twice.val)
                        ELSE CheckedSub(next_pos.val, 1)
             next_height == CheckedShl(parent_height, 1).val
             o == ovf \/ twice.ovf \/ next_pos.ovf \/ sibling.ovf
         IN IF next_pos.val > end_pos
            THEN [val |-> path, ovf |-> o, diverges |-> FALSE]
            ELSE IF next_pos.val = node_pos /\ next_height = parent_height
                 THEN [val |-> path, ovf |-> o, diverges |-> TRUE]
                 ELSE family_path_loop(next_pos.val, end_pos, peak_map,
                                       next_height,
                                       Append(path, <<next_pos.val, sibling.val>>),
                                       o)

\* Mutant of family_path: the peak map is taken for pos, not for pos - 1.
family_path_map_of_pos(pos, end_pos) ==
    LET phm == peak_height_map(pos)
        parent_height == CheckedShl(1, phm.val[2])
    IN family_path_loop(pos, end_pos, phm.val[1], parent_height.val, <<>>,
                        phm.ovf \/ parent_height.ovf)

family_path(pos, end_pos) ==
    LET phm == peak_height_map(SaturatingSub(pos, 1))
        parent_height == CheckedShl(1, phm.val[2])
    IN family_path_loop(pos, end_pos, phm.val[1], parent_height.val, <<>>,
                        phm.ovf \/ parent_height.ovf)

\* No navigation call has been made yet.
NoCall == [op |-> "none", status |-> "ok", ovf |-> FALSE, val |-> <<>>]

----
\* VecStore

Hash == {"h1", "h2"}

Elem == {"e1", "e2"}

\* The u64 values of an index.
Idx == 0 .. Pow2(IdxBits) - 1

\* usize is narrower than u64 on some targets.
UsizeWidths == {IdxBits - 1, IdxBits}

\* idx as usize
as_usize(idx) == idx % Pow2(usize_bits)

Some(v) == [is_some |-> TRUE, vec |-> v]

None == [is_some |-> FALSE, vec |-> <<>>]

Ok(v) == [tag |-> "Ok", value |-> v]

MissingHashAtIndex(idx) == [tag |-> "MissingHashAtIndex", value |-> idx]

\* VecStore::new()
new ==
    /\ data = Some(<<>>)
    /\ hashes = <<>>

NoStoreCall ==
    /\ store_ret = [op |-> "none", idx |-> 0, res |-> Ok("()")]
    /\ appended_hashes = <<>>
    /\ appended_elems = <<>>

\* Mutant of append: the hashes are assigned, not extended.
append_overwrites(elem, new_hashes) ==
    /\ data' = IF data.is_some THEN Some(Append(data.vec, elem)) ELSE data
    /\ hashes' = new_hashes
    /\ store_ret' = [op |-> "append", idx |-> 0, res |-> Ok("()")]
    /\ appended_hashes' = appended_hashes \o new_hashes
    /\ appended_elems' = Append(appended_elems, elem)
    /\ UNCHANGED <<usize_bits, nav_vars>>

append(elem, new_hashes) ==
    /\ data' = IF data.is_some THEN Some(Append(data.vec, elem)) ELSE data
    /\ hashes' = hashes \o new_hashes
    /\ store_ret' = [op |-> "append", idx |-> 0, res |-> Ok("()")]
    /\ appended_hashes' = appended_hashes \o new_hashes
    /\ appended_elems' = Append(appended_elems, elem)
    /\ UNCHANGED <<usize_bits, nav_vars>>

\* Mutant of hash_at: the argument is taken as a 1-based position.
hash_at_one_based(idx) ==
    LET i == as_usize(idx)
    IN IF 1 <= i /\ i <= Len(hashes)
       THEN Ok(hashes[i])
       ELSE MissingHashAtIndex(idx)

\* hashes.get(i) is entry i of a 0-based vector: hashes[i + 1] here.
hash_at(idx) ==
    LET i == as_usize(idx)
    IN IF i < Len(hashes)
       THEN Ok(hashes[i + 1])
       ELSE MissingHashAtIndex(idx)

peak_hash_at(idx) ==
    LET i == as_usize(idx)
    IN IF i < Len(hashes)
       THEN Ok(hashes[i + 1])
       ELSE MissingHashAtIndex(idx)

\* The slices of hashes passed to one append.
Slices == UNION {[1 .. n -> Hash] : n \in 0 .. MaxSlice}

\* A vector holds at most usize::MAX entries.
Capacity == IF MaxLen < Pow2(usize_bits) - 1 THEN MaxLen ELSE Pow2(usize_bits) - 1

StoreInit ==
    /\ usize_bits \in UsizeWidths
    /\ hashes = <<>>
    /\ data \in {Some(<<>>), None}
    /\ NoStoreCall
    /\ overflow_checks = TRUE
    /\ in_pos = 0
    /\ in_end_pos = 0
    /\ nav_ret = NoCall

Call_append ==
    \E elem \in Elem, new_hashes \in Slices :
        /\ Len(appended_elems) < MaxAppends
        /\ Len(hashes) + Len(new_hashes) <= Capacity
        /\ append(elem, new_hashes)

Call_hash_at ==
    \E idx \in Idx :
        /\ store_ret' = [op |-> "hash_at", idx |-> idx, res |-> hash_at(idx)]
        /\ UNCHANGED <<usize_bits, hashes, data, appended_hashes, appended_elems, nav_vars>>

Call_peak_hash_at ==
    \E idx \in Idx :
        /\ store_ret' = [op |-> "peak_hash_at", idx |-> idx, res |-> peak_hash_at(idx)]
        /\ UNCHANGED <<usize_bits, hashes, data, appended_hashes, appended_elems, nav_vars>>

StoreNext ==
    \/ Call_append
    \/ Call_hash_at
    \/ Call_peak_hash_at

StoreSpec == StoreInit /\ [][StoreNext]_vars

----
\* A call of a navigation function on the inputs in_pos (the position, size
\* or index argument) and in_end_pos, and what the caller gets back.

Returned(op, r, diverges) ==
    LET status == IF r.ovf /\ overflow_checks THEN "panic"
                  ELSE IF diverges THEN "hang"
                  ELSE "ok"
    IN [op |-> op, status |-> status, ovf |-> r.ovf,
        val |-> IF status = "ok" THEN r.val ELSE <<>>]

NavInit ==
    /\ overflow_checks \in BOOLEAN
    /\ in_pos \in U64
    /\ in_end_pos \in U64
    /\ nav_ret = NoCall
    /\ usize_bits = IdxBits
    /\ new
    /\ NoStoreCall

Call_peaks ==
    /\ nav_ret.op = "none"
    /\ nav_ret' = Returned("peaks", peaks(in_pos), FALSE)
    /\ UNCHANGED <<overflow_checks, in_pos, in_end_pos, store_vars>>

Call_node_height ==
    /\ nav_ret.op = "none"
    /\ nav_ret' = Returned("node_height", node_height(in_pos), FALSE)
    /\ UNCHANGED <<overflow_checks, in_pos, in_end_pos, store_vars>>

Call_is_leaf ==
    /\ nav_ret.op = "none"
    /\ nav_ret' = Returned("is_leaf", is_leaf(in_pos), FALSE)
    /\ UNCHANGED <<overflow_checks, in_pos, in_end_pos, store_vars>>

Call_peak_height_map ==
    /\ nav_ret.op = "none"
    /\ nav_ret' = Returned("peak_height_map", peak_height_map(in_pos), FALSE)
    /\ UNCHANGED <<overflow_checks, in_pos, in_end_pos, store_vars>>

Call_is_left ==
    /\ nav_ret.op = "none"
    /\ nav_ret' = Returned("is_left", is_left(in_pos), FALSE)
    /\ UNCHANGED <<overflow_checks, in_pos, in_end_pos, store_vars>>

Call_family ==
    /\ nav_ret.op = "none"
    /\ nav_ret' = Returned("family", family(in_pos), FALSE)
    /\ UNCHANGED <<overflow_checks, in_pos, in_end_pos, store_vars>>

Call_family_path ==
    /\ nav_ret.op = "none"
    /\ LET r == family_path(in_pos, in_end_pos)
       IN nav_ret' = Returned("family_path", r, r.diverges)
    /\ UNCHANGED <<overflow_checks, in_pos, in_end_pos, store_vars>>

NavNext ==
    \/ Call_peaks
    \/ Call_node_height
    \/ Call_is_leaf
    \/ Call_peak_height_map
    \/ Call_is_left
    \/ Call_family
    \/ Call_family_path

NavSpec == NavInit /\ [][NavNext]_vars

----
\* Properties of the navigation functions, checked under NavSpec.

RECURSIVE SumOfTerms(_)
SumOfTerms(S) ==
    IF S = {} THEN 0
    ELSE LET k == CHOOSE x \in S : TRUE
         IN (Pow2(k) - 1) + SumOfTerms(S \ {k})

\* size is a sum of one or more terms 2^k - 1, k >= 1, each k used at most
\* once.  A term with k > W exceeds every size of the word.
Representable(size) ==
    \E S \in SUBSET (1 .. W) : S # {} /\ SumOfTerms(S) = size

\* C1: peaks(size) is non-empty exactly when size is a sum of distinct terms
\* 2^k - 1; for every other size it is the empty sequence.
C1_PeaksNonEmptyIffRepresentable ==
    nav_ret.op = "peaks" =>
        /\ nav_ret.status = "ok"
        /\ (nav_ret.val # <<>>) <=> Representable(in_pos)

\* peaks was called on the unstable size 5 and returned no peaks.
C1_Witness ==
    nav_ret.op = "peaks" /\ in_pos = 5 /\ nav_ret.val = <<>>

\* C5: family is symmetric: without overflow, family(p) = (parent, s) gives
\* s # p and family(s) = (parent, p).
C5_FamilySymmetric ==
    (nav_ret.op = "family" /\ in_pos >= 1 /\ ~nav_ret.ovf) =>
        LET parent == nav_ret.val[1]
            s == nav_ret.val[2]
        IN /\ s # in_pos
           /\ ~family(s).ovf
           /\ family(s).val = <<parent, in_pos>>

\* family was called on the right child 6 and returned parent 7, sibling 3.
C5_Witness ==
    nav_ret.op = "family" /\ in_pos = 6 /\ nav_ret.val = <<7, 3>>

\* C6: family_path(pos, end_pos) is the empty path whenever pos >= end_pos
\* and whenever pos = 0, for every end_pos.
C6_DegenerateInputsGiveEmptyPath ==
    (nav_ret.op = "family_path" /\ (in_pos >= in_end_pos \/ in_pos = 0)) =>
        /\ nav_ret.status = "ok"
        /\ nav_ret.val = <<>>

\* C7: no navigation function overflows the machine word for any input, and
\* every call returns a result.
C7_NoOverflowOnAnyInput ==
    nav_ret.op # "none" => (~nav_ret.ovf /\ nav_ret.status = "ok")

StrictlyIncreasing(s) ==
    \A i \in 1 .. Len(s) - 1 : s[i] < s[i + 1]

\* C8: peaks(size) is strictly increasing and, when non-empty, ends in size.
C8_PeaksIncreasingUpToSize ==
    nav_ret.op = "peaks" =>
        /\ nav_ret.status = "ok"
        /\ StrictlyIncreasing(nav_ret.val)
        /\ nav_ret.val # <<>> => nav_ret.val[Len(nav_ret.val)] = in_pos

\* peaks was called on size 11 and returned three peaks.
C8_Witness ==
    nav_ret.op = "peaks" /\ in_pos = 11 /\ nav_ret.val = <<7, 10, 11>>

\* The pairs got by iterating family from p, kept while the parent does not
\* exceed end_pos.  A parent that overflows the word exceeds every end_pos.
RECURSIVE IterateFamily(_, _)
IterateFamily(p, end_pos) ==
    LET f == family(p)
    IN IF f.ovf \/ f.val[1] > end_pos
       THEN <<>>
       ELSE <<f.val>> \o IterateFamily(f.val[1], end_pos)

\* C9: for pos >= 1, family_path(pos, end_pos) is the sequence of
\* (parent, sibling) pairs got by iterating family from pos, up to the first
\* parent that exceeds end_pos.
C9_FamilyPathIteratesFamily ==
    (nav_ret.op = "family_path" /\ in_pos >= 1) =>
        /\ nav_ret.status = "ok"
        /\ nav_ret.val = IterateFamily(in_pos, in_end_pos)

\* family_path was called on (8, 15) and returned a path of three pairs.
C9_Witness ==
    /\ nav_ret.op = "family_path"
    /\ in_pos = 8
    /\ in_end_pos = 15
    /\ nav_ret.val = << <<10, 9>>, <<14, 13>>, <<15, 7>> >>

BitSet(map, h) == (map \div Pow2(h)) % 2 = 1

\* C10: for a stable size s, bit h of the map of peak_height_map(s) is set
\* exactly when some peak of peaks(s) has height h.
C10_PeakMapAgreesWithPeaks ==
    (nav_ret.op = "peak_height_map" /\ peaks(in_pos).val # <<>>) =>
        /\ nav_ret.status = "ok"
        /\ \A h \in 0 .. W :
               BitSet(nav_ret.val[1], h) <=>
                   \E i \in 1 .. Len(peaks(in_pos).val) :
                       node_height(peaks(in_pos).val[i]).val = h

\* peak_height_map was called on the stable size 11, whose peaks 7, 10, 11
\* have the heights 2, 1, 0.
C10_Witness ==
    nav_ret.op = "peak_height_map" /\ in_pos = 11 /\ nav_ret.val = <<7, 0>>

----
\* Properties of the store, checked under StoreSpec.

IsRead == store_ret.op \in {"hash_at", "peak_hash_at"}

\* C2: hash_at takes a 1-based position: with n hashes stored, hash_at(pos)
\* for 1 <= pos <= n succeeds and returns the pos-th hash ever appended.
C2_HashAtOneBased ==
    (store_ret.op = "hash_at" /\ 1 <= store_ret.idx /\ store_ret.idx <= Len(hashes)) =>
        /\ store_ret.res.tag = "Ok"
        /\ store_ret.res.value = appended_hashes[store_ret.idx]

\* C2 as amended: hash_at takes a 0-based index: with n hashes stored,
\* hash_at(idx) for 0 <= idx < n succeeds and returns the hash appended as
\* number idx + 1.
C2_HashAtZeroBased ==
    (store_ret.op = "hash_at" /\ store_ret.idx < Len(hashes)) =>
        /\ store_ret.res.tag = "Ok"
        /\ store_ret.res.value = appended_hashes[store_ret.idx + 1]

\* hash_at(1) on a store whose first two hashes differ returned the second.
C2_Witness ==
    /\ store_ret.op = "hash_at"
    /\ store_ret.idx = 1
    /\ Len(hashes) >= 2
    /\ appended_hashes[1] # appended_hashes[2]
    /\ store_ret.res = Ok(appended_hashes[2])

\* C3: the hash vector is the concatenation, in call order, of the slices
\* passed to append; the element vector, when kept, holds one element for
\* each append in call order; append returns Ok.
C3_AppendOnly ==
    /\ hashes = appended_hashes
    /\ data.is_some => data.vec = appended_elems
    /\ ~data.is_some => data = None
    /\ store_ret.op = "append" => store_ret.res = Ok("()")

\* Two appends with different elements made three hashes.
C3_Witness ==
    /\ store_ret.op = "append"
    /\ data.is_some
    /\ Len(appended_elems) = 2
    /\ appended_elems[1] # appended_elems[2]
    /\ Len(hashes) = 3

\* C4: with n hashes stored, hash_at(idx) and peak_hash_at(idx) return
\* MissingHashAtIndex(idx) for every idx >= n, and leave the store as it is.
C4_MissingHashAtIndex ==
    (IsRead /\ store_ret.idx >= Len(hashes)) =>
        /\ store_ret.res.tag = "MissingHashAtIndex"
        /\ store_ret.res.value = store_ret.idx
        /\ hashes = appended_hashes

====
